---------------------------- MODULE Spec2Model ----------------------------
(***************************************************************************)
(* A model of the trivia quiz game: the entry flow of trivia_game.py and   *)
(* the helpers get_questions, quiz, calculate_winner and                   *)
(* write_score_to_csv of trivia_game_helpers.py.                           *)
(*                                                                         *)
(* Python strings are sequences of one-character strings, so that int(),   *)
(* str(), str.upper() and html.unescape() are computed, not assumed.       *)
(* A Python dict is a sequence of [k, v] records in insertion order.       *)
(* A name that may be unbound (or None) is <<>> when unbound and <<v>>     *)
(* when it holds v.                                                        *)
(***************************************************************************)
EXTENDS Integers, Sequences, FiniteSets, TLC

\* ------------------------------------------------------------------ bounds
MaxPlayers == 2       \* largest player count typed at the console
MaxQuestions == 2     \* largest number of records in the API payload

\* The limit of the question count prompt (trivia_game.py line 65).
QuestionLimit == 50

VARIABLES
    pc,                          \* position of the single thread of control
    error,                       \* the unhandled exception that ended the run,
                                 \* "none" while there is none
    line,                        \* what the last input() of the entry flow
                                 \* returned
    printed,                     \* messages the last entry-flow step printed
    no_players,                  \* trivia_game.py: no_players
    number,                      \* trivia_game.py: number
    player_list,                 \* trivia_game.py: player_list
    no_questions,                \* trivia_game.py: no_questions
    amount,                      \* the count get_questions put in the URL
    response,                    \* what get_questions returned
    score,                       \* quiz: score
    question_number,             \* quiz: question_number
    item_index,                  \* quiz: position of `item` in the results
    correct_answer,              \* quiz: correct_answer
    player_index,                \* quiz: position of `player` in player_list
    answer,                      \* quiz: answer
    events,                      \* console events of quiz, in order
    highest_score,               \* calculate_winner: highest_score
    persons_with_highest_score,  \* calculate_winner: persons_with_highest_score
    player_point_sums,           \* calculate_winner: player_point_sums
    person_index,                \* position of `person` in score.items()
    announcement,                \* what calculate_winner printed
    csv_rows                     \* rows written to quiz_score.csv

vars == <<pc, error, line, printed, no_players, number, player_list,
          no_questions, amount, response, score, question_number,
          item_index, correct_answer, player_index, answer, events,
          highest_score, persons_with_highest_score, player_point_sums,
          person_index, announcement, csv_rows>>

entry_vars == <<line, printed, no_players, number, player_list, no_questions>>
fetch_vars == <<amount, response>>
quiz_vars == <<score, question_number, item_index, correct_answer,
               player_index, answer, events>>
winner_vars == <<highest_score, persons_with_highest_score,
                 player_point_sums, person_index, announcement>>

\* ------------------------------------------------------------ basic values
Range(s) == {s[i] : i \in 1..Len(s)}

NoDuplicates(s) == \A i, j \in 1..Len(s) : s[i] = s[j] => i = j

IsPrefix(s, t) == Len(s) <= Len(t) /\ SubSeq(t, 1, Len(s)) = s

RECURSIVE Sum(_)
\* sum(values) of a list of integers
Sum(s) == IF s = <<>> THEN 0 ELSE s[1] + Sum(Tail(s))

Digits == <<"0", "1", "2", "3", "4", "5", "6", "7", "8", "9">>

DigitValue(c) == (CHOOSE i \in 1..10 : Digits[i] = c) - 1

IsDigit(c) == c \in Range(Digits)

IsSpace(c) == c \in {" ", "\t"}

RECURSIVE NatToStr(_)
\* str(n) for n >= 0
NatToStr(n) ==
    IF n < 10 THEN <<Digits[n + 1]>>
    ELSE NatToStr(n \div 10) \o <<Digits[(n % 10) + 1]>>

\* str(n) of an int
IntToStr(n) == IF n < 0 THEN <<"-">> \o NatToStr(0 - n) ELSE NatToStr(n)

RECURSIVE LStrip(_)
LStrip(s) == IF s # <<>> /\ IsSpace(s[1]) THEN LStrip(Tail(s)) ELSE s

RECURSIVE RStrip(_)
RStrip(s) ==
    IF s # <<>> /\ IsSpace(s[Len(s)]) THEN RStrip(SubSeq(s, 1, Len(s) - 1))
    ELSE s

\* str.strip()
Strip(s) == LStrip(RStrip(s))

RECURSIVE DigitsToNat(_)
DigitsToNat(s) ==
    IF s = <<>> THEN 0
    ELSE 10 * DigitsToNat(SubSeq(s, 1, Len(s) - 1)) + DigitValue(s[Len(s)])

\* int(s): <<n>> when s, stripped of surrounding whitespace, is an optional
\* sign and at least one decimal digit; <<>> when int raises ValueError.
ParseInt(s) ==
    LET t == Strip(s)
        signed == t # <<>> /\ t[1] \in {"-", "+"}
        body == IF signed THEN Tail(t) ELSE t
    IN  IF body = <<>> \/ \E i \in 1..Len(body) : ~IsDigit(body[i])
        THEN <<>>
        ELSE IF signed /\ t[1] = "-" THEN <<0 - DigitsToNat(body)>>
        ELSE <<DigitsToNat(body)>>

\* str.upper(), on the letters of the model's alphabet
UpperChar(c) ==
    CASE c = "a" -> "A"
      [] c = "b" -> "B"
      [] OTHER -> c

Upper(s) == [i \in 1..Len(s) |-> UpperChar(s[i])]

\* The character references html.unescape replaces (the ones of the model's
\* alphabet), each with the character it stands for.
Entities ==
    { <<(<<"&", "a", "m", "p", ";">>), "&">>,
      <<(<<"&", "#", "0", "3", "9", ";">>), "'">>,
      <<(<<"&", "q", "u", "o", "t", ";">>), "\"">> }

RECURSIVE Unescape(_)
\* html.unescape(s)
Unescape(s) ==
    IF s = <<>> THEN <<>>
    ELSE LET hits == {e \in Entities : IsPrefix(e[1], s)}
         IN  IF hits # {}
             THEN LET e == CHOOSE h \in hits : TRUE
                  IN  <<e[2]>> \o Unescape(SubSeq(s, Len(e[1]) + 1, Len(s)))
             ELSE <<s[1]>> \o Unescape(Tail(s))

\* ------------------------------------------------------------------- dicts
DictKeys(d) == [i \in 1..Len(d) |-> d[i].k]

DictValues(d) == [i \in 1..Len(d) |-> d[i].v]

DictHas(d, key) == \E i \in 1..Len(d) : d[i].k = key

\* d[key]
DictGet(d, key) == d[CHOOSE i \in 1..Len(d) : d[i].k = key].v

\* d[key] = value: a present key keeps its place, a new key goes last
DictSet(d, key, value) ==
    IF DictHas(d, key)
    THEN [i \in 1..Len(d) |-> IF d[i].k = key THEN [k |-> key, v |-> value]
                                              ELSE d[i]]
    ELSE Append(d, [k |-> key, v |-> value])

\* ------------------------------------------------------------ console input
\* Lines typed at the two count prompts: integers around the limits, a line
\* with surrounding blanks, a word and the empty line.
PlayerCountInputs ==
    {IntToStr(n) : n \in (0 - 1)..MaxPlayers}
        \cup {<<" ", "1", " ">>, <<"x">>, <<>>}

QuestionCountInputs ==
    {IntToStr(n) : n \in {0, QuestionLimit, QuestionLimit + 1}}
        \cup {<<"x">>}

\* Lines typed at the name prompt.
Names == {<<>>, <<"a">>, <<"A">>}

\* Lines typed as answers.
AnswerInputs ==
    { <<"a", "b">>, <<" ", "A", "b", " ">>, <<"A", "&">>,
      <<"a", "&", "a", "m", "p", ";">> }

\* correct_answer fields of the payload, HTML-escaped as the API sends them
RawAnswers == { <<"A", "b">>, <<"a", "&", "a", "m", "p", ";">> }

\* One record of the payload's "results".
Item(raw) ==
    [question |-> <<"q">>, correct_answer |-> raw,
     incorrect_answers |-> << <<"b">> >>]

RECURSIVE SeqsUpTo(_, _)
\* all sequences over S of length at most n
SeqsUpTo(S, n) ==
    IF n = 0 THEN {<<>>}
    ELSE LET shorter == SeqsUpTo(S, n - 1)
         IN  shorter \cup {Append(t, x) : t \in shorter, x \in S}

\* What the API may answer: status 200 with a body holding "results", or an
\* error status with a body that has no "results".
Responses ==
    {[status_code |-> 200, json |-> [results |-> r]] :
        r \in SeqsUpTo({Item(raw) : raw \in RawAnswers}, MaxQuestions)}
    \cup {[status_code |-> 429, json |-> [response_code |-> 5]]}

\* -------------------------------------------------------------- entry flow
\* The name check left out: any name is taken into the list.
NameIsAny(name, names) == TRUE

\* `name not in player_list`
NameIsFree(name, names) == name \notin Range(names)

\* `no_questions <= 50`
CountAccepted(n) == n <= QuestionLimit

Crash(exception) ==
    /\ pc' = "crashed"
    /\ error' = exception

\* while True: no_players = int(input('How many players? ')), then number = 0
\* and the first turn of `for player in range(no_players)`
AskPlayers ==
    /\ pc = "ask_players"
    /\ \E s \in PlayerCountInputs :
        LET r == ParseInt(s)
        IN  /\ line' = s
            /\ IF r = <<>>
               THEN /\ printed' = <<"Please, give a number">>
                    /\ UNCHANGED <<pc, no_players, number>>
               ELSE /\ printed' = <<>>
                    /\ no_players' = r
                    /\ IF 0 < r[1]
                       THEN number' = 1 /\ pc' = "ask_name"
                       ELSE number' = 0 /\ pc' = "ask_questions"
    /\ UNCHANGED <<error, player_list, no_questions>>
    /\ UNCHANGED <<fetch_vars, quiz_vars, winner_vars, csv_rows>>

\* while True: name = input(f"Player {number} name: "), and the next turn of
\* the for loop once the name is taken into the list
AskName ==
    /\ pc = "ask_name"
    /\ \E name \in Names :
        /\ line' = name
        /\ IF NameIsFree(name, player_list)
           THEN /\ player_list' = Append(player_list, name)
                /\ printed' = <<>>
                /\ IF number < no_players[1]
                   THEN number' = number + 1 /\ pc' = "ask_name"
                   ELSE number' = number /\ pc' = "ask_questions"
           ELSE /\ printed' = <<"The name is already taken">>
                /\ UNCHANGED <<pc, number, player_list>>
    /\ UNCHANGED <<error, no_players, no_questions>>
    /\ UNCHANGED <<fetch_vars, quiz_vars, winner_vars, csv_rows>>

\* while True: try no_questions = int(input(...)) except ValueError: print;
\* then `if no_questions <= 50` is evaluated whether or not int() raised.
AskQuestions ==
    /\ pc = "ask_questions"
    /\ \E s \in QuestionCountInputs :
        LET r == ParseInt(s)
            bound == IF r = <<>> THEN no_questions ELSE r
            said == IF r = <<>> THEN <<"Please, give a number">> ELSE <<>>
        IN  /\ line' = s
            /\ no_questions' = bound
            /\ IF bound = <<>>
               THEN /\ Crash("NameError")
                    /\ printed' = said
               ELSE IF CountAccepted(bound[1])
               THEN /\ printed' = said \o <<"Thank you! Lets play">>
                    /\ pc' = "fetch"
                    /\ UNCHANGED error
               ELSE /\ printed' = said \o <<"Sorry, the maximum is 50">>
                    /\ UNCHANGED <<pc, error>>
    /\ UNCHANGED <<no_players, number, player_list>>
    /\ UNCHANGED <<fetch_vars, quiz_vars, winner_vars, csv_rows>>

\* response = helpers.get_questions(no_questions)
GetQuestions ==
    /\ pc = "fetch"
    /\ amount' = no_questions
    /\ \E r \in Responses :
        /\ response' = <<r>>
        /\ printed' = IF r.status_code # 200
                      THEN <<"Something went wrong!">> ELSE <<>>
    /\ pc' = "quiz"
    /\ UNCHANGED <<error, line, no_players, number, player_list, no_questions>>
    /\ UNCHANGED <<quiz_vars, winner_vars, csv_rows>>

\* -------------------------------------------------------------------- quiz
\* The key counted from 0 instead of 1.
QuestionKeyFromZero(n) == IntToStr(n - 1)

\* str(question_number), the key of a question in a player's entry
QuestionKey(n) == IntToStr(n)

\* The players served last to first.
PlayerOrderReversed(names) == [i \in 1..Len(names) |-> names[Len(names) + 1 - i]]

\* `for player in player_list`: the order the players are served in
PlayerOrder(names) == names

\* The comparison without upper(): `answer == correct_answer`.
AnswerIsCorrectExact(given, correct) == given = correct

\* `answer.upper() == correct_answer.upper()`
AnswerIsCorrect(given, correct) == Upper(given) = Upper(correct)

RECURSIVE EmptyEntries(_, _)
\* score = {}; for player in player_list: score[player] = {}
EmptyEntries(table, names) ==
    IF names = <<>> THEN table
    ELSE EmptyEntries(DictSet(table, names[1], <<>>), Tail(names))

Event(kind, q, who) == [ev |-> kind, q |-> q, p |-> who]

Results == response[1].json.results

\* The head of `for item in response.json()["results"]` with item_index the
\* record to take: the record's correct answer is unescaped and the player
\* loop starts, or the loop is over and quiz returns, which ends the life of
\* its locals correct_answer and answer.
QuizNextItem(i) ==
    IF i <= Len(Results)
    THEN /\ item_index' = i
         /\ correct_answer' = <<Unescape(Results[i].correct_answer)>>
         /\ player_index' = 1
         /\ pc' = IF player_list = <<>> THEN "quiz_show" ELSE "quiz_prompt"
    ELSE /\ pc' = "calc"
         /\ correct_answer' = <<>>
         /\ UNCHANGED <<item_index, player_index>>

\* quiz, from its first line to the first prompt
QuizStart ==
    /\ pc = "quiz"
    /\ IF "results" \in DOMAIN response[1].json
       THEN /\ score' = EmptyEntries(<<>>, player_list)
            /\ question_number' = 1
            /\ QuizNextItem(1)
            /\ UNCHANGED error
       ELSE /\ Crash("KeyError")
            /\ UNCHANGED <<score, question_number, item_index,
                           correct_answer, player_index>>
    /\ answer' = <<>>
    /\ UNCHANGED events
    /\ UNCHANGED <<entry_vars, fetch_vars, winner_vars, csv_rows>>

\* answer = input(f'{player}: {question_with_choices}\n')
QuizPrompt ==
    /\ pc = "quiz_prompt"
    /\ \E s \in AnswerInputs : answer' = <<s>>
    /\ events' = Append(events, Event("prompt", question_number,
                                      PlayerOrder(player_list)[player_index]))
    /\ pc' = "quiz_record"
    /\ UNCHANGED <<error, score, question_number, item_index, correct_answer,
                   player_index>>
    /\ UNCHANGED entry_vars
    /\ UNCHANGED <<fetch_vars, winner_vars, csv_rows>>

\* the comparison, score[player][str(question_number)] = player_points, and
\* the next turn of `for player in player_list`
QuizRecord ==
    /\ pc = "quiz_record"
    /\ LET player == PlayerOrder(player_list)[player_index]
           player_points ==
               IF AnswerIsCorrect(answer[1], correct_answer[1]) THEN 1 ELSE 0
       IN  /\ score' = DictSet(score, player,
                   DictSet(DictGet(score, player),
                           QuestionKey(question_number), player_points))
           /\ events' = Append(events, Event("record", question_number, player))
    /\ player_index' = player_index + 1
    /\ pc' = IF player_index < Len(player_list) THEN "quiz_prompt"
             ELSE "quiz_show"
    /\ UNCHANGED <<error, question_number, item_index, correct_answer, answer>>
    /\ UNCHANGED <<entry_vars, fetch_vars, winner_vars, csv_rows>>

\* question_number += 1; print(f"\nCorrect answer is: {correct_answer}\n"),
\* and the next turn of the loop over the records
QuizShow ==
    /\ pc = "quiz_show"
    /\ events' = Append(events, Event("show", question_number,
                                      correct_answer[1]))
    /\ question_number' = question_number + 1
    /\ QuizNextItem(item_index + 1)
    /\ answer' = IF item_index < Len(Results) THEN answer ELSE <<>>
    /\ UNCHANGED <<error, score>>
    /\ UNCHANGED <<entry_vars, fetch_vars, winner_vars, csv_rows>>

\* -------------------------------------------------------- calculate_winner
\* The comparison with >= for >: a tie replaces the winner list.
IsHigherOrEqual(total, highest) == total >= highest

\* `total_score > highest_score`
IsHigher(total, highest) == total > highest

\* sum(scores.values())
Total(scores) == Sum(DictValues(scores))

NoAnnouncement == [path |-> "none", highest |-> 0, names |-> <<>>]

\* highest_score = -1; persons_with_highest_score = []; player_point_sums = {}
CalcStart ==
    /\ pc = "calc"
    /\ highest_score' = 0 - 1
    /\ persons_with_highest_score' = <<>>
    /\ player_point_sums' = <<>>
    /\ person_index' = 1
    /\ pc' = "calc_loop"
    /\ UNCHANGED <<error, announcement>>
    /\ UNCHANGED <<entry_vars, fetch_vars, quiz_vars, csv_rows>>

\* one turn of `for person, scores in score.items()`
CalcPerson ==
    /\ pc = "calc_loop"
    /\ person_index <= Len(score)
    /\ LET person == score[person_index].k
           total_score == Total(score[person_index].v)
       IN  /\ player_point_sums' =
                   DictSet(player_point_sums, person, total_score)
           /\ IF IsHigher(total_score, highest_score)
              THEN /\ highest_score' = total_score
                   /\ persons_with_highest_score' = <<person>>
              ELSE IF total_score = highest_score
              THEN /\ persons_with_highest_score' =
                          Append(persons_with_highest_score, person)
                   /\ UNCHANGED highest_score
              ELSE UNCHANGED <<highest_score, persons_with_highest_score>>
    /\ person_index' = person_index + 1
    /\ UNCHANGED <<pc, error, announcement>>
    /\ UNCHANGED <<entry_vars, fetch_vars, quiz_vars, csv_rows>>

\* the printing of the result, after the loop
CalcAnnounce ==
    /\ pc = "calc_loop"
    /\ person_index > Len(score)
    /\ announcement' =
           IF highest_score = 0
           THEN [path |-> "no_points", highest |-> 0, names |-> <<>>]
           ELSE [path |-> "winner", highest |-> highest_score,
                 names |-> persons_with_highest_score]
    /\ pc' = "export"
    /\ UNCHANGED <<error, highest_score, persons_with_highest_score,
                   player_point_sums, person_index>>
    /\ UNCHANGED <<entry_vars, fetch_vars, quiz_vars, csv_rows>>

\* ------------------------------------------------------ write_score_to_csv
NameHeader == <<"N", "a", "m", "e">>

TotalHeader == <<"T", "o", "t", "a", "l">>

\* f'Question {q_no}'
QuestionHeader(q_no) ==
    <<"Q", "u", "e", "s", "t", "i", "o", "n", " ">> \o q_no

\* ['Name'] + [f'Question {q_no}' for q_no in questions] + ['Total']
Headers(questions) ==
    <<NameHeader>>
        \o [i \in 1..Len(questions) |-> QuestionHeader(questions[i])]
        \o <<TotalHeader>>

\* The row without its total: [person] + list(scores.values()).
RowWithoutTotal(person, scores) ==
    <<person>>
        \o [i \in 1..Len(scores) |-> IntToStr(scores[i].v)]

\* [person] + list(scores.values()) + [total], as csv.writer writes the
\* fields: a string as it is, an int as str() gives it
Row(person, scores) ==
    LET values == DictValues(scores)
    IN  <<person>>
            \o [i \in 1..Len(values) |-> IntToStr(values[i])]
            \o <<IntToStr(Total(scores))>>

\* questions = list(next(iter(score.values())).keys()), the headers, the open
\* of the file and the header row
ExportOpen ==
    /\ pc = "export"
    /\ IF score = <<>>
       THEN /\ Crash("StopIteration")
            /\ UNCHANGED <<csv_rows, person_index>>
       ELSE /\ csv_rows' = <<Headers(DictKeys(score[1].v))>>
            /\ person_index' = 1
            /\ pc' = "export_rows"
            /\ UNCHANGED error
    /\ UNCHANGED <<highest_score, persons_with_highest_score,
                   player_point_sums, announcement>>
    /\ UNCHANGED <<entry_vars, fetch_vars, quiz_vars>>

\* one turn of `for person, scores in score.items()`: one row
ExportRow ==
    /\ pc = "export_rows"
    /\ person_index <= Len(score)
    /\ csv_rows' = Append(csv_rows,
                          Row(score[person_index].k, score[person_index].v))
    /\ person_index' = person_index + 1
    /\ UNCHANGED <<pc, error, highest_score, persons_with_highest_score,
                   player_point_sums, announcement>>
    /\ UNCHANGED <<entry_vars, fetch_vars, quiz_vars>>

\* the file is closed; print('You can check the results in quiz_score.csv')
ExportClose ==
    /\ pc = "export_rows"
    /\ person_index > Len(score)
    /\ printed' = <<"You can check the results in quiz_score.csv">>
    /\ pc' = "done"
    /\ UNCHANGED <<error, line, no_players, number, player_list, no_questions>>
    /\ UNCHANGED <<fetch_vars, quiz_vars, winner_vars, csv_rows>>

\* ---------------------------------------------------------- specifications
\* Everything but pc and score, as it is when trivia_game.py has run its
\* lines 36 and 37.
InitRest ==
    /\ error = "none"
    /\ line = <<>>
    /\ printed = <<"Welcome to a trivia game!">>
    /\ no_players = <<>>
    /\ number = 0
    /\ player_list = <<>>
    /\ no_questions = <<>>
    /\ amount = <<>>
    /\ response = <<>>
    /\ question_number = 1
    /\ item_index = 0
    /\ correct_answer = <<>>
    /\ player_index = 1
    /\ answer = <<>>
    /\ events = <<>>
    /\ highest_score = 0 - 1
    /\ persons_with_highest_score = <<>>
    /\ player_point_sums = <<>>
    /\ person_index = 1
    /\ announcement = NoAnnouncement
    /\ csv_rows = <<>>

Init ==
    /\ pc = "ask_players"
    /\ score = <<>>
    /\ InitRest

Next ==
    \/ AskPlayers
    \/ AskName
    \/ AskQuestions
    \/ GetQuestions
    \/ QuizStart
    \/ QuizPrompt
    \/ QuizRecord
    \/ QuizShow
    \/ CalcStart
    \/ CalcPerson
    \/ CalcAnnounce
    \/ ExportOpen
    \/ ExportRow
    \/ ExportClose

\* The program, from its first prompt to its end.
Spec == Init /\ [][Next]_vars

\* A player's entry with the keys "1".."n" and the given points.
Entry(points) ==
    [i \in 1..Len(points) |-> [k |-> QuestionKey(i), v |-> points[i]]]

\* The tables with the given entries for up to MaxPlayers + 1 distinct names.
Tables(entries) ==
    {t \in SeqsUpTo([k : Names, v : entries], Cardinality(Names)) :
        /\ Len(t) <= MaxPlayers + 1
        /\ NoDuplicates(DictKeys(t))}

\* Score tables of 0/1 points, regular or not.
ScoreTables ==
    Tables({Entry(p) : p \in SeqsUpTo({0, 1}, MaxQuestions)})

\* Score tables of 0/1 points where all players have the same keys.
RegularScoreTables ==
    {t \in ScoreTables :
        \A i, j \in 1..Len(t) : DictKeys(t[i].v) = DictKeys(t[j].v)}

InitWinner ==
    /\ pc = "calc"
    /\ score \in ScoreTables
    /\ InitRest

NextWinner ==
    \/ CalcStart
    \/ CalcPerson
    \/ CalcAnnounce

\* calculate_winner called on any score table.
SpecWinner == InitWinner /\ [][NextWinner]_vars

InitCsv ==
    /\ pc = "export"
    /\ score \in RegularScoreTables
    /\ InitRest

NextCsv ==
    \/ ExportOpen
    \/ ExportRow
    \/ ExportClose

\* write_score_to_csv called on any regular score table.
SpecCsv == InitCsv /\ [][NextCsv]_vars

\* ------------------------------------------------------------------ claims
\* quiz has returned (what follows it has started).
QuizReturned ==
    \/ pc \in {"calc", "calc_loop", "export", "export_rows", "done"}
    \/ pc = "crashed" /\ error = "StopIteration"

\* The payload is well formed: it holds its list of records.
WellFormed == response # <<>> /\ "results" \in DOMAIN response[1].json

\* The keys "1".."k", written out in decimal.
KeysUpTo(k) == [i \in 1..k |-> NatToStr(i)]

\* The number of 1s in an entry.
Ones(entry) == Cardinality({i \in 1..Len(entry) : entry[i].v = 1})

ZeroOrOne(entry) == \A i \in 1..Len(entry) : entry[i].v \in {0, 1}

\* C1: while quiz runs, the players of the table are the listed players in
\* list order; the players already served for the current question hold the
\* keys "1".."k" of the k questions asked so far and the others the keys of
\* the questions before it, every value 0 or 1; once the player loop of a
\* question is over all hold the same keys, and the returned table holds
\* "1".."n" for each player, n the number of records of the payload.
C1_TableStaysRegular ==
    /\ pc \in {"quiz_prompt", "quiz_record", "quiz_show"} =>
        /\ DictKeys(score) = player_list
        /\ \A i \in 1..Len(score) :
            /\ ZeroOrOne(score[i].v)
            /\ DictKeys(score[i].v) =
                   KeysUpTo(IF i < player_index \/ pc = "quiz_show"
                            THEN question_number
                            ELSE question_number - 1)
    /\ (QuizReturned /\ WellFormed) =>
        /\ DictKeys(score) = player_list
        /\ \A i \in 1..Len(score) :
            /\ ZeroOrOne(score[i].v)
            /\ DictKeys(score[i].v) = KeysUpTo(Len(Results))

\* Two players have answered two questions, with a 1 and a 0 in the table.
C1_Witness ==
    /\ pc = "calc"
    /\ Len(score) = 2
    /\ Len(Results) = 2
    /\ \E i, j \in 1..2 : Ones(score[i].v) = 1 /\ Ones(score[j].v) = 2

\* Two characters are the same letter, in whatever case.
SameLetter(c, d) == c = d \/ {c, d} \in {{"a", "A"}, {"b", "B"}}

EqualIgnoringCase(s, t) ==
    Len(s) = Len(t) /\ \A i \in 1..Len(s) : SameLetter(s[i], t[i])

\* A point has just been recorded, for the player before player_index.
JustRecorded == pc \in {"quiz_prompt", "quiz_show"} /\ player_index > 1

RecordedPoint ==
    DictGet(DictGet(score, player_list[player_index - 1]),
            NatToStr(question_number))

\* C2 as stated: the recorded point is 1 exactly when the input, trimmed of
\* surrounding whitespace, equals the correct answer ignoring letter case.
C2_TrimmedIgnoringCase ==
    JustRecorded =>
        (RecordedPoint = 1 <=>
            EqualIgnoringCase(Strip(answer[1]), correct_answer[1]))

\* C2: the recorded point is 1 exactly when the input as typed, untrimmed,
\* equals the correct answer ignoring letter case, and 0 otherwise.
C2_UntrimmedIgnoringCase ==
    JustRecorded =>
        /\ RecordedPoint \in {0, 1}
        /\ RecordedPoint = 1 <=>
               EqualIgnoringCase(answer[1], correct_answer[1])

\* An answer that differs from the correct answer in letter case only has
\* been given and has scored 1.
C2_Witness ==
    /\ JustRecorded
    /\ answer[1] # correct_answer[1]
    /\ EqualIgnoringCase(answer[1], correct_answer[1])
    /\ RecordedPoint = 1

\* calculate_winner has left its loop.
CalcLoopOver ==
    \/ pc = "calc_loop" /\ person_index > Len(score)
    \/ pc = "export"

MaxOnes == CHOOSE m \in {Ones(score[i].v) : i \in 1..Len(score)} :
               \A i \in 1..Len(score) : Ones(score[i].v) <= m

HasMaxOnes(item) == Ones(item.v) = MaxOnes

\* The players with the highest total, in table order.
TopPlayers == DictKeys(SelectSeq(score, HasMaxOnes))

\* C3: for a table with at least one player, when the loop of
\* calculate_winner is over every player's total is the sum of the player's
\* points, highest_score is the maximum total and the winner list is the
\* players with that total, each once, in table order; with a maximum of 0
\* the 'no points' message is printed and no name, otherwise the names of
\* the winner list are.
C3_WinnersAreArgmax ==
    (CalcLoopOver /\ score # <<>>) =>
        /\ DictKeys(player_point_sums) = DictKeys(score)
        /\ \A i \in 1..Len(score) :
               player_point_sums[i].v = Ones(score[i].v)
        /\ highest_score = MaxOnes
        /\ persons_with_highest_score = TopPlayers
        /\ pc = "export" =>
               announcement =
                   IF MaxOnes = 0
                   THEN [path |-> "no_points", highest |-> 0, names |-> <<>>]
                   ELSE [path |-> "winner", highest |-> MaxOnes,
                         names |-> TopPlayers]

\* Three players, two of them tied at the highest total, have been announced.
C3_Witness ==
    /\ pc = "export"
    /\ Len(score) = 3
    /\ Len(persons_with_highest_score) = 2
    /\ announcement.path = "winner"

\* A line that does not pass the validation of the prompt it is typed at.
InvalidLine ==
    \/ pc \in {"ask_players", "ask_questions"} /\ ParseInt(line') = <<>>
    \/ pc = "ask_name" /\ line' \in Range(player_list)

\* C4: a line that fails the validation of its prompt makes the program
\* print a message and ask the same prompt again, with no failure and with
\* the values entered so far unchanged.
C4_InvalidLineAsksAgain ==
    [][InvalidLine =>
          /\ pc' = pc
          /\ error' = "none"
          /\ printed' # <<>>
          /\ <<no_players, number, player_list, no_questions>>' =
                 <<no_players, number, player_list, no_questions>>]_vars

\* C5: get_questions is only ever called with a count from 1 to 50.
C5_CountFromOneToFifty ==
    amount # <<>> => amount[1] \in 1..QuestionLimit

\* The name prompts are over.
NamesCollected == pc \notin {"ask_players", "ask_name"}

\* C6 as stated: player_list never holds a duplicate or an empty name, and
\* holds as many names as the entered player count when collection ends.
C6_UniqueNonEmptyNames ==
    /\ NoDuplicates(player_list)
    /\ <<>> \notin Range(player_list)
    /\ NamesCollected => Len(player_list) = no_players[1]

\* C6: player_list never holds a duplicate name; while player `number` is
\* asked the list holds the names of the players before, and when collection
\* ends it holds as many names as the entered player count, none when that
\* count is below 1.
C6_UniqueNames ==
    /\ NoDuplicates(player_list)
    /\ pc = "ask_name" =>
           Len(player_list) = number - 1 /\ number <= no_players[1]
    /\ NamesCollected =>
           Len(player_list) = IF no_players[1] < 0 THEN 0 ELSE no_players[1]

\* Two names have been collected, one of them the empty name.
C6_Witness ==
    /\ NamesCollected
    /\ Len(player_list) = 2
    /\ no_players = <<2>>
    /\ <<>> \in Range(player_list)

\* C7: for a regular table with at least one player and q questions the file
\* holds one row more than there are players: the header 'Name', 'Question
\* <key>' for each key of the first player in key order, 'Total'; then for
\* each player in table order the name, the q points in key order and the
\* total, which read back as an integer is the number of 1s.
C7_RowsOfTheFile ==
    (pc = "done" /\ score # <<>>) =>
        LET q == Len(score[1].v)
        IN  /\ Len(csv_rows) = Len(score) + 1
            /\ Len(csv_rows[1]) = q + 2
            /\ csv_rows[1][1] = <<"N", "a", "m", "e">>
            /\ csv_rows[1][q + 2] = <<"T", "o", "t", "a", "l">>
            /\ \A k \in 1..q :
                   csv_rows[1][k + 1] =
                       <<"Q", "u", "e", "s", "t", "i", "o", "n", " ">>
                           \o score[1].v[k].k
            /\ \A i \in 1..Len(score) :
                   LET row == csv_rows[i + 1]
                   IN  /\ Len(row) = q + 2
                       /\ row[1] = score[i].k
                       /\ \A k \in 1..q :
                              row[k + 1] = IF score[i].v[k].v = 1
                                           THEN <<"1">> ELSE <<"0">>
                       /\ ParseInt(row[q + 2]) = <<Ones(score[i].v)>>

\* Two players who scored 0 on each of two questions have been exported.
C7_Witness ==
    /\ pc = "done"
    /\ Len(score) = 2
    /\ Len(score[1].v) = 2
    /\ \A i \in 1..2 : Ones(score[i].v) = 0
    /\ Len(csv_rows) = 3

\* C8: with a well-formed payload the flow never ends in an unhandled
\* failure.
C8_NoFailureOnWellFormedPayload == WellFormed => pc # "crashed"

\* C9: the winner announcement is printed only when some player's total is
\* at least 1.
C9_WinnerHasAPoint ==
    announcement.path = "winner" =>
        \E i \in 1..Len(score) : Ones(score[i].v) >= 1

RECURSIVE PlayerEvents(_, _)
\* For question q: each player prompted, then recorded, in list order.
PlayerEvents(q, names) ==
    IF names = <<>> THEN <<>>
    ELSE <<[ev |-> "prompt", q |-> q, p |-> names[1]],
           [ev |-> "record", q |-> q, p |-> names[1]]>>
             \o PlayerEvents(q, Tail(names))

RECURSIVE QuizEvents(_, _, _)
\* For the records from the q-th on: the players' events, then the record's
\* unescaped correct answer shown once.
QuizEvents(q, records, names) ==
    IF records = <<>> THEN <<>>
    ELSE PlayerEvents(q, names)
             \o <<[ev |-> "show", q |-> q,
                   p |-> Unescape(records[1].correct_answer)]>>
             \o QuizEvents(q + 1, Tail(records), names)

\* C10: the events of quiz are, for each record in payload order, a prompt
\* and then a recording for each player in list order, then the correct
\* answer of that record shown once; nothing else happens in between, and
\* when quiz returns all of it has happened.
C10_EventsInOrder ==
    /\ ~WellFormed => events = <<>>
    /\ WellFormed =>
        /\ IsPrefix(events, QuizEvents(1, Results, player_list))
        /\ QuizReturned => events = QuizEvents(1, Results, player_list)
        /\ pc = "quiz_record" =>
               events[Len(events)] =
                   [ev |-> "prompt", q |-> question_number,
                    p |-> player_list[player_index]]

\* Two questions have been put to two players: ten events.
C10_Witness ==
    /\ QuizReturned
    /\ Len(player_list) = 2
    /\ Len(events) = 10

=============================================================================
